---- MODULE Spec2Model ----
(***************************************************************************)
(* Model of src/main.py of crypto-rsi-heatmap: the RSI banding function    *)
(* get_color_for_rsi, the render pass plot_rsi_heatmap (three provider     *)
(* fetches, then drawing), the legend add_legend, and the timeframe        *)
(* selector callback update_plot which re-enters plot_rsi_heatmap.         *)
(*                                                                         *)
(* RSI values are floats in the program.  They are modelled in fixed point *)
(* as integers counting 1/Scale of an RSI point ("ticks"), so that values  *)
(* strictly between two band limits exist.  A mean is kept exact as the    *)
(* pair [sum, n]; the mean of no values, which numpy returns as nan, is    *)
(* the pair with n = 0.                                                    *)
(***************************************************************************)
EXTENDS Integers, Sequences, FiniteSets, TLC

(***************************************************************************)
(* Bounds of the model.                                                    *)
(***************************************************************************)
\* ticks per RSI point
Scale == 10
\* number of asset symbols the market-data provider knows
NumSymbols == 2
\* largest number of simultaneously active plot_rsi_heatmap invocations explored
MaxDepth == 3

AllSymbols == <<"BTC", "ETH", "SOL", "XRP", "ADA">>
Symbols == {AllSymbols[i] : i \in 1..NumSymbols}
\* RSI readings (in RSI points) the indicator provider may report now / ~24h ago
CurVals == {45, 65, 100}
RefVals == {60, 70}
\* RSI points probed below 0 and above 100 by the banding check
ProbeMargin == 2
ProbeVals == (0 - ProbeMargin * Scale)..((100 + ProbeMargin) * Scale)

(***************************************************************************)
(* Module-level configuration of main.py.  A dict is a sequence of         *)
(* records in insertion order, which is the order Python iterates it in.   *)
(***************************************************************************)
BACKGROUND_COLOR == "#0d1117"

\* mutant of RANGES: the Strong band reaches into Overbought
RANGES_overlap ==
    << [label |-> "Overbought", low |-> 70, high |-> 100],
       [label |-> "Strong",     low |-> 60, high |-> 75],
       [label |-> "Neutral",    low |-> 40, high |-> 60],
       [label |-> "Weak",       low |-> 30, high |-> 40],
       [label |-> "Oversold",   low |-> 0,  high |-> 30] >>

RANGES ==
    << [label |-> "Overbought", low |-> 70, high |-> 100],
       [label |-> "Strong",     low |-> 60, high |-> 70],
       [label |-> "Neutral",    low |-> 40, high |-> 60],
       [label |-> "Weak",       low |-> 30, high |-> 40],
       [label |-> "Oversold",   low |-> 0,  high |-> 30] >>

COLORS_LABELS ==
    << [label |-> "Oversold",   color |-> "#1d8b7a"],
       [label |-> "Weak",       color |-> "#144e48"],
       [label |-> "Neutral",    color |-> "#0d1117"],
       [label |-> "Strong",     color |-> "#681f28"],
       [label |-> "Overbought", color |-> "#c32e3b"] >>

SCATTER_COLORS ==
    << [label |-> "Oversold",   color |-> "#1e9884"],
       [label |-> "Weak",       color |-> "#165952"],
       [label |-> "Neutral",    color |-> "#78797a"],
       [label |-> "Strong",     color |-> "#79212c"],
       [label |-> "Overbought", color |-> "#cf2f3d"] >>

TIMEFRAMES == <<"5m", "15m", "1h", "4h", "1d">>

\* the arguments of the call under __main__: num_coins=100, time_frame default
MainNumCoins == 100
DefaultTimeFrame == "5m"

\* Python's None, where a colour or a timeframe is expected
None == "None"

(***************************************************************************)
(* Helpers for dicts and lists.                                            *)
(***************************************************************************)
\* d[key] for a colour table
ColorOf(d, key) == d[CHOOSE i \in 1..Len(d) : d[i].label = key].color

\* str.upper() on the band names
Upper(s) ==
    CASE s = "Overbought" -> "OVERBOUGHT"
      [] s = "Strong"     -> "STRONG"
      [] s = "Neutral"    -> "NEUTRAL"
      [] s = "Weak"       -> "WEAK"
      [] s = "Oversold"   -> "OVERSOLD"
      [] OTHER            -> s

\* a dict symbol -> value is a sequence of pairs <<symbol, value>>, keys unique
Keys(d) == {d[i][1] : i \in 1..Len(d)}
Has(d, k) == \E i \in 1..Len(d) : d[i][1] = k
Get(d, k) == d[CHOOSE i \in 1..Len(d) : d[i][1] = k][2]

RECURSIVE SubSeqs(_)
SubSeqs(s) ==
    IF s = <<>> THEN {<<>>}
    ELSE LET rest == SubSeqs(Tail(s))
         IN  rest \cup {<<Head(s)>> \o r : r \in rest}

\* every dict with the keys ks (in that order) and values from vals (RSI points)
Valuations(ks, vals) ==
    {[i \in 1..Len(ks) |-> <<ks[i], f[i] * Scale>>] : f \in [1..Len(ks) -> vals]}

RECURSIVE SeqSum(_)
SeqSum(s) == IF s = <<>> THEN 0 ELSE Head(s) + SeqSum(Tail(s))

(***************************************************************************)
(* The providers of data.py (not part of the sources at hand): the sets of *)
(* results a successful call may return.                                   *)
(***************************************************************************)
\* get_top_vol_coins(num_coins): at most num_coins distinct symbols, in provider order
TopVolResults(n) ==
    {s \in UNION {[1..k -> Symbols] : k \in 0..NumSymbols} :
        /\ Len(s) <= n
        /\ \A i, j \in 1..Len(s) : i # j => s[i] # s[j]}

\* get_RSI(top_vol, time_frame): a reading for some of the symbols asked for, in their order
RsiResults(symbols, tf) ==
    UNION {Valuations(ss, CurVals) : ss \in SubSeqs(symbols)}

\* get_closest_to_24h(time_frame): a reference reading for some symbols
RefResults(tf) ==
    UNION {Valuations(ss, RefVals) : ss \in SubSeqs(SubSeq(AllSymbols, 1, NumSymbols))}

(***************************************************************************)
(* get_color_for_rsi                                                       *)
(***************************************************************************)
\* low <= rsi_value < high, rsi_value in ticks
InRange(r, rsi_value) == r.low * Scale <= rsi_value /\ rsi_value < r.high * Scale

\* mutant of get_color_for_rsi: the upper limit of a band is taken as inside it
get_color_for_rsi_closed(rsi_value) ==
    LET In(r) == r.low * Scale <= rsi_value /\ rsi_value <= r.high * Scale
    IN  IF \E i \in 1..Len(RANGES) : In(RANGES[i])
        THEN LET first == CHOOSE i \in 1..Len(RANGES) :
                            In(RANGES[i]) /\ \A j \in 1..(i - 1) : ~In(RANGES[j])
             IN  SCATTER_COLORS[CHOOSE k \in 1..Len(SCATTER_COLORS) :
                        SCATTER_COLORS[k].label = RANGES[first].label].color
        ELSE "None"

get_color_for_rsi(rsi_value) ==
    IF \E i \in 1..Len(RANGES) : InRange(RANGES[i], rsi_value)
    THEN LET first == CHOOSE i \in 1..Len(RANGES) :
                        /\ InRange(RANGES[i], rsi_value)
                        /\ \A j \in 1..(i - 1) : ~InRange(RANGES[j], rsi_value)
         IN  ColorOf(SCATTER_COLORS, RANGES[first].label)
    ELSE None

(***************************************************************************)
(* np.mean and add_legend                                                  *)
(***************************************************************************)
NEUTRAL_LEGEND_COLOR == "#808080"

\* adjusted_colors = list(COLORS_LABELS.values()); adjusted_colors[2] = "#808080"
\* mutant of AdjustedColors: index 2 taken as counted from 1
AdjustedColors_offbyone ==
    [i \in 1..Len(COLORS_LABELS) |->
        IF i = 2 THEN NEUTRAL_LEGEND_COLOR ELSE COLORS_LABELS[i].color]

AdjustedColors ==
    [i \in 1..Len(COLORS_LABELS) |->
        IF i = 3 THEN NEUTRAL_LEGEND_COLOR ELSE COLORS_LABELS[i].color]

\* the legend handles: zip(adjusted_colors, upper-cased keys of COLORS_LABELS)
add_legend ==
    [i \in 1..Len(COLORS_LABELS) |->
        [color |-> AdjustedColors[i], label |-> Upper(COLORS_LABELS[i].label)]]

(***************************************************************************)
(* State.                                                                  *)
(***************************************************************************)
VARIABLES
    depth,          \* number of plot_rsi_heatmap invocations that have not returned
    pc,             \* where the innermost running invocation is, or where control is
    num_coins,      \* argument of the latest invocation (update_plot's closure keeps it)
    time_frame,     \* argument of the innermost running invocation
    top_vol,        \* its locals
    rsi_data,
    old_rsi_data,
    average_rsi,
    fig,            \* pyplot's current figure and what has been drawn on it
    dropdown,       \* status of the figure's CheckButtons; <<>> when it has none
    calls,          \* provider calls made by the latest render pass, in order
    clicked,        \* label of the latest selector click
    probe           \* an RSI value handed to get_color_for_rsi and the result

vars == <<depth, pc, num_coins, time_frame, top_vol, rsi_data, old_rsi_data,
          average_rsi, fig, dropdown, calls, clicked, probe>>

locals == <<time_frame, top_vol, rsi_data, old_rsi_data, average_rsi>>

NaN == [sum |-> 0, n |-> 0]

\* no figure exists (before the first pass, or after plt.close('all'))
NoFig ==
    [state |-> "none", facecolor |-> None, bands |-> <<>>, texts |-> <<>>,
     points |-> <<>>, segs |-> <<>>, avg |-> <<>>, legend |-> <<>>,
     xlim |-> 0, title |-> None]

\* lines 42-47: a new figure with the background colour and nothing drawn
BlankFig == [NoFig EXCEPT !.state = "created", !.facecolor = BACKGROUND_COLOR]

NoProbe == [v |-> 0, color |-> "unset"]

Init ==
    /\ depth = 0
    /\ pc = "start"
    /\ num_coins = 0
    /\ time_frame = None
    /\ top_vol = <<>>
    /\ rsi_data = <<>>
    /\ old_rsi_data = <<>>
    /\ average_rsi = NaN
    /\ fig = NoFig
    /\ dropdown = <<>>
    /\ calls = <<>>
    /\ clicked = None
    /\ probe = NoProbe

(***************************************************************************)
(* plot_rsi_heatmap                                                        *)
(***************************************************************************)
\* entering plot_rsi_heatmap(n, tf): a new frame, lines 42-47
Enter(n, tf) ==
    /\ depth' = depth + 1
    /\ pc' = "fetch_top"
    /\ num_coins' = n
    /\ time_frame' = tf
    /\ top_vol' = <<>>
    /\ rsi_data' = <<>>
    /\ old_rsi_data' = <<>>
    /\ average_rsi' = NaN
    /\ fig' = BlankFig
    /\ dropdown' = <<>>
    /\ calls' = <<>>

\* line 202
Main ==
    /\ pc = "start"
    /\ Enter(MainNumCoins, DefaultTimeFrame)
    /\ UNCHANGED <<clicked, probe>>

\* an exception leaves plot_rsi_heatmap: the frame is gone.  Under __main__ it ends
\* the program; inside update_plot it reaches the widget's callback dispatch, which
\* prints it and goes on with the event loop, or lets it end the program.
Raise ==
    /\ \/ depth' = 0 /\ pc' = "exit"
       \/ depth > 1 /\ depth' = depth - 1 /\ pc' = "loop"
    /\ time_frame' = None
    /\ top_vol' = <<>>
    /\ rsi_data' = <<>>
    /\ old_rsi_data' = <<>>
    /\ average_rsi' = NaN

Call(fn, arg, ok) == [fn |-> fn, arg |-> arg, ok |-> ok]

\* line 50
FetchTopVol ==
    /\ pc = "fetch_top"
    /\ \E r \in TopVolResults(num_coins) : top_vol' = r
    /\ calls' = Append(calls, Call("get_top_vol_coins", num_coins, TRUE))
    /\ pc' = "fetch_rsi"
    /\ UNCHANGED <<depth, num_coins, time_frame, rsi_data, old_rsi_data,
                   average_rsi, fig, dropdown, clicked, probe>>

FetchTopVolFails ==
    /\ pc = "fetch_top"
    /\ calls' = Append(calls, Call("get_top_vol_coins", num_coins, FALSE))
    /\ Raise
    /\ UNCHANGED <<num_coins, fig, dropdown, clicked, probe>>

\* line 51
FetchRsi ==
    /\ pc = "fetch_rsi"
    /\ \E r \in RsiResults(top_vol, time_frame) : rsi_data' = r
    /\ calls' = Append(calls, Call("get_RSI", time_frame, TRUE))
    /\ pc' = "fetch_old"
    /\ UNCHANGED <<depth, num_coins, time_frame, top_vol, old_rsi_data,
                   average_rsi, fig, dropdown, clicked, probe>>

FetchRsiFails ==
    /\ pc = "fetch_rsi"
    /\ calls' = Append(calls, Call("get_RSI", time_frame, FALSE))
    /\ Raise
    /\ UNCHANGED <<num_coins, fig, dropdown, clicked, probe>>

\* mutant of Mean: the sum is divided by the number of symbols asked for
Mean_over_top_vol(values) == [sum |-> SeqSum(values), n |-> Len(top_vol)]

\* np.mean(values): sum / n, and nan (0/0) for an empty list
Mean(values) == [sum |-> SeqSum(values), n |-> Len(values)]

\* lines 52-56
FetchOld ==
    /\ pc = "fetch_old"
    /\ \E r \in RefResults(time_frame) : old_rsi_data' = r
    /\ calls' = Append(calls, Call("get_closest_to_24h", time_frame, TRUE))
    /\ average_rsi' = Mean([i \in 1..Len(rsi_data) |-> rsi_data[i][2]])
    /\ pc' = "draw"
    /\ UNCHANGED <<depth, num_coins, time_frame, top_vol, rsi_data,
                   fig, dropdown, clicked, probe>>

\* mutant of FetchOldFails: the failure is swallowed and the pass goes on drawing
FetchOldFails_swallowed ==
    /\ pc = "fetch_old"
    /\ calls' = Append(calls, Call("get_closest_to_24h", time_frame, FALSE))
    /\ average_rsi' = Mean([i \in 1..Len(rsi_data) |-> rsi_data[i][2]])
    /\ pc' = "draw"
    /\ UNCHANGED <<depth, num_coins, time_frame, top_vol, rsi_data, old_rsi_data,
                   fig, dropdown, clicked, probe>>

FetchOldFails ==
    /\ pc = "fetch_old"
    /\ calls' = Append(calls, Call("get_closest_to_24h", time_frame, FALSE))
    /\ Raise
    /\ UNCHANGED <<num_coins, fig, dropdown, clicked, probe>>

\* lines 58-61
color_map ==
    [i \in 1..Len(RANGES) |->
        [start  |-> RANGES[i].low,
         end    |-> RANGES[i].high,
         color  |-> ColorOf(COLORS_LABELS, RANGES[i].label),
         symbol |-> RANGES[i].label]]

\* line 65: the box of time_frame is the one checked
NewDropdown(tf) == [i \in 1..Len(TIMEFRAMES) |-> TIMEFRAMES[i] = tf]

\* lines 78-93, i counted from 1
BandFill(i, n) ==
    [start |-> color_map[i].start, end |-> color_map[i].end,
     color |-> color_map[i].color, x1 |-> n + 2]

BandText(i) ==
    [y |-> IF i \notin {1, Len(color_map)}
           THEN (color_map[i].start + color_map[i].end) \div 2
           ELSE IF i = 1 THEN color_map[i].start + 5 ELSE color_map[i].end - 5,
     s |-> Upper(color_map[i].symbol)]

\* lines 96-110
Point(i) ==
    [x |-> i, y |-> rsi_data[i][2], color |-> get_color_for_rsi(rsi_data[i][2]),
     label |-> rsi_data[i][1]]

INCREASE_COLOR == "#1f9986"
DECREASE_COLOR == "#e23343"

\* mutant of LineColor: the sign test is inverted
LineColor_flipped(rsi_diff) == IF rsi_diff < 0 THEN INCREASE_COLOR ELSE DECREASE_COLOR

\* lines 113-114
LineColor(rsi_diff) == IF rsi_diff > 0 THEN INCREASE_COLOR ELSE DECREASE_COLOR

\* lines 112-121: the segments of the symbols that old_rsi_data has, in plot order
Segments ==
    LET idx == SelectSeq([i \in 1..Len(rsi_data) |-> i],
                         LAMBDA i : Has(old_rsi_data, rsi_data[i][1]))
    IN  [k \in 1..Len(idx) |->
            LET i   == idx[k]
                old == Get(old_rsi_data, rsi_data[i][1])
            IN  [x |-> i, y0 |-> old, y1 |-> rsi_data[i][2],
                 color |-> LineColor(rsi_data[i][2] - old)]]

\* lines 124-135: the average line and its label, at y = average_rsi whatever it is
AverageLine == <<[y |-> average_rsi]>>

\* lines 58-161: everything drawn between the fetches and plt.show()
Draw ==
    /\ pc = "draw"
    /\ dropdown' = NewDropdown(time_frame)
    /\ fig' = [fig EXCEPT
                 !.bands  = [i \in 1..Len(color_map) |-> BandFill(i, Len(rsi_data))],
                 !.texts  = [i \in 1..Len(color_map) |-> BandText(i)],
                 !.points = [i \in 1..Len(rsi_data) |-> Point(i)],
                 !.segs   = Segments,
                 !.avg    = AverageLine,
                 !.xlim   = Len(rsi_data) + 2,
                 !.legend = add_legend,
                 !.title  = time_frame]
    /\ pc' = "show"
    /\ UNCHANGED <<depth, num_coins, locals, calls, clicked, probe>>

\* line 165 at the outermost invocation: plt.show() displays the figure and runs the
\* event loop until the windows are closed
ShowBlocks ==
    /\ pc = "show"
    /\ fig' = [fig EXCEPT !.state = "shown"]
    /\ pc' = "mainloop"
    /\ UNCHANGED <<depth, num_coins, locals, dropdown, calls, clicked, probe>>

\* line 165 reached from update_plot, inside a running event loop: what plt.show()
\* does there is the backend's choice.  It may start a nested event loop (ShowBlocks)
\* or display the figure and return at once, so that the invocation returns to
\* update_plot and the outer event loop serves the new figure.
ShowReturns ==
    /\ pc = "show"
    /\ depth > 1
    /\ fig' = [fig EXCEPT !.state = "shown"]
    /\ depth' = depth - 1
    /\ pc' = "loop"
    /\ time_frame' = None
    /\ top_vol' = <<>>
    /\ rsi_data' = <<>>
    /\ old_rsi_data' = <<>>
    /\ average_rsi' = NaN
    /\ UNCHANGED <<num_coins, dropdown, calls, clicked, probe>>

\* an event loop is running and the figure on screen has the selector
Interactive == pc \in {"mainloop", "loop"} /\ fig.state = "shown" /\ dropdown # <<>>

(***************************************************************************)
(* The selector                                                            *)
(***************************************************************************)
\* CheckButtons toggles the clicked box before it calls the observers
Toggled(label) ==
    [i \in 1..Len(TIMEFRAMES) |->
        IF TIMEFRAMES[i] = label THEN ~dropdown[i] ELSE dropdown[i]]

\* mutant of update_plot: re-plots with the first checked timeframe, not the clicked one
update_plot_first_selected(label, status) ==
    LET selected_timeframes ==
            SelectSeq(TIMEFRAMES,
                      LAMBDA tf : \E i \in 1..Len(TIMEFRAMES) :
                                      TIMEFRAMES[i] = tf /\ status[i])
    IN  IF selected_timeframes # <<>>
        THEN /\ depth < MaxDepth
             /\ Enter(num_coins, selected_timeframes[1])
        ELSE /\ dropdown' = status
             /\ UNCHANGED <<depth, pc, num_coins, locals, fig, calls>>

\* mutant of update_plot: re-plots whether or not a timeframe is left checked
update_plot_unguarded(label, status) ==
    /\ depth < MaxDepth
    /\ Enter(num_coins, label)

\* lines 67-73, with status = dropdown.get_status() at the time of the call
update_plot(label, status) ==
    LET selected_timeframes ==
            SelectSeq(TIMEFRAMES,
                      LAMBDA tf : \E i \in 1..Len(TIMEFRAMES) :
                                      TIMEFRAMES[i] = tf /\ status[i])
    IN  IF selected_timeframes # <<>>
        THEN \* plt.close('all'); plot_rsi_heatmap(num_coins, label)
             /\ depth < MaxDepth
             /\ Enter(num_coins, label)
        ELSE /\ dropdown' = status
             /\ UNCHANGED <<depth, pc, num_coins, locals, fig, calls>>

\* the user clicks the box of one timeframe
Click ==
    /\ Interactive
    /\ \E label \in {TIMEFRAMES[i] : i \in 1..Len(TIMEFRAMES)} :
          /\ clicked' = label
          /\ update_plot(label, Toggled(label))
    /\ UNCHANGED probe

\* the user closes the window: the event loops end, every plt.show() returns and
\* with it every invocation
CloseWindow ==
    /\ Interactive
    /\ fig' = NoFig
    /\ dropdown' = <<>>
    /\ depth' = 0
    /\ pc' = "exit"
    /\ time_frame' = None
    /\ top_vol' = <<>>
    /\ rsi_data' = <<>>
    /\ old_rsi_data' = <<>>
    /\ average_rsi' = NaN
    /\ UNCHANGED <<num_coins, calls, clicked, probe>>

Next ==
    \/ Main
    \/ FetchTopVol
    \/ FetchTopVolFails
    \/ FetchRsi
    \/ FetchRsiFails
    \/ FetchOld
    \/ FetchOldFails
    \/ Draw
    \/ ShowBlocks
    \/ ShowReturns
    \/ Click
    \/ CloseWindow

Spec == Init /\ [][Next]_vars

(***************************************************************************)
(* The banding function on its own: every probed RSI value is classified.  *)
(***************************************************************************)
InitBand ==
    /\ depth = 0
    /\ pc = "start"
    /\ num_coins = 0
    /\ time_frame = None
    /\ top_vol = <<>>
    /\ rsi_data = <<>>
    /\ old_rsi_data = <<>>
    /\ average_rsi = NaN
    /\ fig = NoFig
    /\ dropdown = <<>>
    /\ calls = <<>>
    /\ clicked = None
    /\ probe \in {[v |-> v, color |-> "unset"] : v \in ProbeVals}

Classify ==
    /\ probe.color = "unset"
    /\ probe' = [probe EXCEPT !.color = get_color_for_rsi(probe.v)]
    /\ UNCHANGED <<depth, pc, num_coins, locals, fig, dropdown, calls, clicked>>

NextBand == Classify

SpecBand == InitBand /\ [][NextBand]_vars

(***************************************************************************)
(* Properties                                                              *)
(***************************************************************************)
\* the render pass of the innermost invocation has drawn and its locals are live
Drawn == pc \in {"show", "mainloop"}

\* a step taken by a selector click: in an interactive state the only other
\* step is closing the window, which ends the program
ClickStep == Interactive /\ pc' # "exit" /\ vars' # vars

\* the timeframes checked in a selector status
Checked(status) == {TIMEFRAMES[i] : i \in {j \in 1..Len(status) : status[j]}}

\* C1: for every RSI value v, get_color_for_rsi returns the scatter colour of the
\* band whose half-open range holds v: Oversold for 0 <= v < 30, Weak for
\* 30 <= v < 40, Neutral for 40 <= v < 60, Strong for 60 <= v < 70, Overbought for
\* 70 <= v < 100, and None for every v < 0 or v >= 100.
C1_BandFor ==
    probe.color # "unset" =>
        LET v == probe.v
        IN  probe.color =
              CASE 0 <= v /\ v < 30 * Scale           -> "#1e9884"
                [] 30 * Scale <= v /\ v < 40 * Scale  -> "#165952"
                [] 40 * Scale <= v /\ v < 60 * Scale  -> "#78797a"
                [] 60 * Scale <= v /\ v < 70 * Scale  -> "#79212c"
                [] 70 * Scale <= v /\ v < 100 * Scale -> "#cf2f3d"
                [] OTHER                               -> "None"

\* C1 witness: the value 70 has been classified as Overbought
C1_Witness == probe.v = 70 * Scale /\ probe.color = "#cf2f3d"

\* C2: the five ranges of RANGES partition [0,100): a value in [0,100) lies in
\* exactly one band's range [low, high), a value outside lies in none.
C2_Partition ==
    LET v == probe.v
        holding == {i \in 1..Len(RANGES) :
                       RANGES[i].low * Scale <= v /\ v < RANGES[i].high * Scale}
    IN  /\ Len(RANGES) = 5
        /\ IF 0 <= v /\ v < 100 * Scale
           THEN Cardinality(holding) = 1
           ELSE holding = {}

\* C2 witness: a value just under the limit between Neutral and Strong was classified
C2_Witness == probe.v = 60 * Scale - 1 /\ probe.color = "#78797a"

\* C3: a click on a timeframe T other than the displayed one discards the chart
\* and starts a new render pass with T, with no fetch made yet and no snapshot
\* kept; a drawn chart is the product of a pass that made the three fetches anew
\* (top volume for num_coins, RSI and reference RSI for the chart's timeframe),
\* its timeframe is the one clicked last, and its points are those of the
\* snapshot of that pass.
C3_DrawnFromOwnPass ==
    /\ fig.title # None =>
          /\ Len(calls) = 3
          /\ calls[1] = [fn |-> "get_top_vol_coins", arg |-> num_coins, ok |-> TRUE]
          /\ calls[2] = [fn |-> "get_RSI", arg |-> fig.title, ok |-> TRUE]
          /\ calls[3] = [fn |-> "get_closest_to_24h", arg |-> fig.title, ok |-> TRUE]
          /\ clicked # None => fig.title = clicked
    /\ Drawn =>
          /\ fig.title = time_frame
          /\ {<<fig.points[i].label, fig.points[i].y>> : i \in 1..Len(fig.points)}
                = {rsi_data[i] : i \in 1..Len(rsi_data)}

C3_ToggleStep ==
    ClickStep /\ clicked' # fig.title =>
        /\ fig' = BlankFig
        /\ dropdown' = <<>>
        /\ pc' = "fetch_top"
        /\ time_frame' = clicked'
        /\ calls' = <<>>
        /\ rsi_data' = <<>> /\ old_rsi_data' = <<>> /\ top_vol' = <<>>

RECURSIVE SumOver(_, _)
\* the sum of the values a dict has for a set of keys
SumOver(d, ks) ==
    IF ks = {} THEN 0
    ELSE LET k == CHOOSE x \in ks : TRUE
         IN  Get(d, k) + SumOver(d, ks \ {k})

\* C4: the displayed average is the arithmetic mean of exactly the values of the
\* current RSI snapshot, and exactly one point is plotted per symbol of the
\* snapshot, at the ordinals 1..n: a symbol of top_vol that the snapshot lacks
\* has no point and no share in the average; {BTC: 65, ETH: 45} averages 55.
C4_PointsAndAverage ==
    Drawn =>
        LET syms == Keys(rsi_data)
            n    == Cardinality(syms)
        IN  /\ Len(fig.points) = n
            /\ \A i \in 1..n : fig.points[i].x = i
            /\ \A k \in syms :
                  Cardinality({i \in 1..n : fig.points[i].label = k}) = 1
            /\ \A i \in 1..n :
                  /\ fig.points[i].label \in syms
                  /\ fig.points[i].y = Get(rsi_data, fig.points[i].label)
            /\ \A i \in 1..Len(top_vol) :
                  top_vol[i] \notin syms =>
                      \A j \in 1..n : fig.points[j].label # top_vol[i]
            /\ Len(fig.avg) = 1
            /\ fig.avg[1].y.n = n
            /\ fig.avg[1].y.sum = SumOver(rsi_data, syms)
            /\ (rsi_data = << <<"BTC", 65 * Scale>>, <<"ETH", 45 * Scale>> >>
                  => fig.avg[1].y.sum = 55 * Scale * fig.avg[1].y.n)

\* C4 witness: two symbols were asked for, one has a reading, one point is shown
C4_Witness ==
    /\ pc = "mainloop"
    /\ Len(top_vol) = 2
    /\ Len(rsi_data) = 1
    /\ Len(fig.points) = 1
    /\ fig.avg[1].y.n = 1

\* C5: for every plotted symbol a delta segment from the reference value to the
\* current value is drawn iff the reference snapshot has the symbol; it has the
\* increase colour when current > reference, the decrease colour when
\* current < reference.
C5_DeltaSegments ==
    Drawn =>
        /\ \A i \in 1..Len(fig.points) :
              LET mine == {k \in 1..Len(fig.segs) : fig.segs[k].x = fig.points[i].x}
              IN  IF fig.points[i].label \in Keys(old_rsi_data)
                  THEN /\ Cardinality(mine) = 1
                       /\ \A k \in mine :
                             /\ fig.segs[k].y0 = Get(old_rsi_data, fig.points[i].label)
                             /\ fig.segs[k].y1 = fig.points[i].y
                  ELSE mine = {}
        /\ \A k \in 1..Len(fig.segs) :
              /\ \E i \in 1..Len(fig.points) : fig.points[i].x = fig.segs[k].x
              /\ fig.segs[k].y1 > fig.segs[k].y0 => fig.segs[k].color = "#1f9986"
              /\ fig.segs[k].y1 < fig.segs[k].y0 => fig.segs[k].color = "#e23343"

\* C5 witness: BTC at 65 against a reference of 60 has an increase segment, and a
\* symbol with a reading of 65 against a reference of 70 a decrease segment
C5_Witness ==
    /\ Drawn
    /\ \E k \in 1..Len(fig.segs) :
          fig.segs[k] = [x |-> 1, y0 |-> 60 * Scale, y1 |-> 65 * Scale, color |-> "#1f9986"]
    /\ \E k \in 1..Len(fig.segs) :
          fig.segs[k] = [x |-> 2, y0 |-> 70 * Scale, y1 |-> 65 * Scale, color |-> "#e23343"]
    /\ rsi_data[1][1] = "BTC"

\* C6: with an empty RSI snapshot the pass never draws an average line from an
\* undefined average (the pass either draws no average line or has reported an
\* error instead of drawing): every average line drawn is the mean of at least
\* one value.
C6_NoUndefinedAverage ==
    \A i \in 1..Len(fig.avg) : fig.avg[i].y.n > 0

\* the last provider call of the latest pass failed
Aborted == calls # <<>> /\ ~calls[Len(calls)].ok

\* C7: a failed provider call ends the pass: nothing of the chart is on the
\* figure (no band, band label, point, segment, average line, legend, title or
\* selector), the pass is not running any more, no call follows the failed one
\* and no provider function is called twice in a pass.
C7_AbortDrawsNothing ==
    /\ \A i, j \in 1..Len(calls) : i # j => calls[i].fn # calls[j].fn
    /\ \A i \in 1..(Len(calls) - 1) : calls[i].ok
    /\ Aborted =>
          /\ pc \in {"exit", "loop"}
          /\ fig.bands = <<>> /\ fig.texts = <<>> /\ fig.points = <<>>
          /\ fig.segs = <<>> /\ fig.avg = <<>> /\ fig.legend = <<>>
          /\ fig.title = "None" /\ fig.state # "shown"
          /\ dropdown = <<>>

\* C7 witness: the reference fetch of a re-render failed and the event loop goes on
C7_Witness ==
    /\ Len(calls) = 3
    /\ ~calls[3].ok
    /\ pc = "loop"
    /\ fig.state = "created"

\* the legend colour of a band name, and the fill colour of its background
LegendEntries(name) == {i \in 1..Len(fig.legend) : fig.legend[i].label = name}
FillColors(name) ==
    {fig.bands[i].color : i \in {j \in 1..Len(fig.bands) : fig.texts[j].s = name}}

BandNames == {"OVERSOLD", "WEAK", "NEUTRAL", "STRONG", "OVERBOUGHT"}

\* C8 as stated: the legend has one entry per band and each entry's colour is the
\* fill colour of that band's background.
C8_LegendIsFillColor ==
    fig.legend # <<>> =>
        /\ Len(fig.legend) = 5
        /\ \A name \in BandNames :
              /\ Cardinality(LegendEntries(name)) = 1
              /\ \A i \in LegendEntries(name) : FillColors(name) = {fig.legend[i].color}

\* C8 amended: the legend has one entry per band, labelled with the band's name
\* in upper case; its colour is the fill colour of the band's background for
\* Oversold, Weak, Strong and Overbought, and #808080 for Neutral.
C8_LegendAmended ==
    fig.legend # <<>> =>
        /\ Len(fig.legend) = 5
        /\ \A name \in BandNames :
              /\ Cardinality(LegendEntries(name)) = 1
              /\ \A i \in LegendEntries(name) :
                    IF name = "NEUTRAL"
                    THEN fig.legend[i].color = "#808080" /\ FillColors(name) = {"#0d1117"}
                    ELSE FillColors(name) = {fig.legend[i].color}

\* C8 witness: a shown chart whose legend has the grey NEUTRAL entry
C8_Witness ==
    /\ fig.state = "shown"
    /\ \E i \in 1..Len(fig.legend) :
          fig.legend[i] = [color |-> "#808080", label |-> "NEUTRAL"]
    /\ Len(fig.bands) = 5

\* C9: at most one plot_rsi_heatmap invocation is active at any time, whatever
\* the sequence of toggles.
C9_OneActiveInvocation == depth <= 1

\* C10: at most the displayed timeframe is checked in a selector.  A click that
\* leaves no box checked makes no fetch, keeps the figure and only unchecks the
\* box; a click that re-renders does so with the clicked label, a member of
\* TIMEFRAMES that is checked after the click, and with num_coins unchanged.
C10_OnlyDisplayedChecked ==
    dropdown # <<>> => Checked(dropdown) \subseteq {fig.title}

C10_ClickStep ==
    ClickStep =>
        LET after == (Checked(dropdown) \ {clicked'})
                        \cup ({clicked'} \ Checked(dropdown))
        IN  /\ clicked' \in {"5m", "15m", "1h", "4h", "1d"}
            /\ after = {} =>
                  /\ calls' = calls /\ fig' = fig /\ depth' = depth /\ pc' = pc
                  /\ Checked(dropdown') = {} /\ Len(dropdown') = 5
                  /\ num_coins' = num_coins
            /\ after # {} =>
                  /\ clicked' \in after
                  /\ pc' = "fetch_top" /\ depth' = depth + 1
                  /\ time_frame' = clicked'
                  /\ num_coins' = num_coins

C10_Selector == []C10_OnlyDisplayedChecked /\ [][C10_ClickStep]_vars

\* C10 witness: the displayed timeframe was clicked and no box is checked; the
\* chart of that timeframe is still shown
C10_Witness ==
    /\ Interactive
    /\ Checked(dropdown) = {}
    /\ clicked = fig.title
    /\ Len(fig.points) > 0
    /\ Len(calls) = 3

====
